---- MODULE Spec2Model ----
(***************************************************************************)
(* A model of terraAnalyser (app.py): the structural diff engine           *)
(* (find_differences, get_the_differences) and the change classification   *)
(* pipeline (change_details, analyse_plan, main).                          *)
(*                                                                         *)
(* JSON values are tagged records [k, v]:                                  *)
(*   k = "null"  v = 0                 Python None                         *)
(*   k = "bool"  v = 0 or 1            Python False / True                 *)
(*   k = "num"   v = an integer        Python int                          *)
(*   k = "dict"  v = a function from keys to values                        *)
(*   k = "list"  v = a sequence of values                                  *)
(* Strings (mapping keys and diff paths) are sequences of one-character    *)
(* strings, so that concatenation and strip(".") are computed as Python    *)
(* computes them.                                                          *)
(***************************************************************************)
EXTENDS Integers, Sequences, FiniteSets, TLC

VARIABLES
    before,         \* find_differences: the first argument
    after,          \* find_differences: the second argument
    dpc,            \* progress of the diff calls made on (before, after)
    differences,    \* result of find_differences(before, after)
    overwritten,    \* history: paths whose entry was replaced by a later write
    swapped,        \* result of find_differences(after, before)
    returned,       \* result of get_the_differences(before, after)
    mpc,            \* main and analyse_plan: the statement about to run
    sec,            \* main: 1-based index into change_types
    changes,        \* analyse_plan: plan.get(type_of_change, [])
    idx,            \* analyse_plan: number of records the loop has processed
    summary,        \* analyse_plan: the five counters
    changes_dict,   \* analyse_plan: the six category lists
    detail,         \* history: what change_details returned in the last iteration
    ret,            \* what analyse_plan returned
    outputs         \* <<section, sink>> for every display or file produced

dvars == <<before, after, dpc, differences, overwritten, swapped, returned>>

pvars == <<mpc, sec, changes, idx, summary, changes_dict, detail, ret, outputs>>

vars == <<dvars, pvars>>

----------------------------------------------------------------------------
(* Bounds of the value universe *)

MaxNum == 2
MaxLen == 1
MaxRecords == 3

----------------------------------------------------------------------------
(* JSON values as json.load decodes them *)

None == [k |-> "null", v |-> 0]
True == [k |-> "bool", v |-> 1]
Num(n) == [k |-> "num", v |-> n]
Dict(f) == [k |-> "dict", v |-> f]
List(s) == [k |-> "list", v |-> s]

EmptyDict == Dict([key \in {} |-> None])

Dot == <<".">>
KeyA == <<"a">>
KeyB == <<"b">>
KeyAB == <<"a", ".", "b">>

Scalars == {None, True} \cup {Num(n) : n \in 1..MaxNum}

SeqsUpTo(S, n) == UNION {[1..m -> S] : m \in 0..n}

\* mappings {} and {"b": s}
InnerDicts == {EmptyDict} \cup {Dict([key \in {KeyB} |-> s]) : s \in Scalars}

ScalarLists == {List(s) : s \in SeqsUpTo(Scalars, MaxLen)}

Inner == Scalars \cup InnerDicts \cup ScalarLists

\* mappings over the keys "a" (any inner value) and "a.b" (a scalar)
OuterDicts ==
    {EmptyDict}
    \cup {Dict([key \in {KeyA} |-> x]) : x \in Inner}
    \cup {Dict([key \in {KeyAB} |-> s]) : s \in Scalars}
    \cup {Dict([key \in {KeyA, KeyAB} |-> IF key = KeyA THEN x ELSE s]) :
             x \in Inner, s \in Scalars}

OuterLists == {List(s) : s \in SeqsUpTo(Scalars \cup InnerDicts, MaxLen)}

Values == Inner \cup OuterDicts \cup OuterLists

\* The orders in which a set of keys can be iterated.  Python leaves the
\* iteration order of a set unspecified; only the relative order of keys
\* that occur in the same mapping matters.
KeyOrders == {<<KeyA, KeyAB, KeyB>>, <<KeyAB, KeyA, KeyB>>}

----------------------------------------------------------------------------
(* Python primitives used by the diff engine *)

RECURSIVE lstrip(_)
lstrip(s) == IF s # <<>> /\ Head(s) = "." THEN lstrip(Tail(s)) ELSE s

RECURSIVE rstrip(_)
rstrip(s) ==
    IF s # <<>> /\ s[Len(s)] = "." THEN rstrip(SubSeq(s, 1, Len(s) - 1)) ELSE s

\* str.strip(".")
strip(s) == rstrip(lstrip(s))

Digit(n) == <<"0", "1", "2", "3", "4", "5", "6", "7", "8", "9">>[n + 1]

\* str(i) for i >= 0
RECURSIVE str(_)
str(i) == IF i < 10 THEN <<Digit(i)>> ELSE str(i \div 10) \o <<Digit(i % 10)>>

\* f"{path}.{key}".strip(".")
KeyPath(path, key) == strip(path \o Dot \o key)

\* f"{path}[{i}]" for the 0-based index i
IndexPath(path, i) == path \o <<"[">> \o str(i) \o <<"]">>

\* Python ==.  bool is a subclass of int: True == 1 and False == 0.
RECURSIVE PyEq(_, _)
PyEq(x, y) ==
    IF x.k = "dict" /\ y.k = "dict"
    THEN /\ DOMAIN x.v = DOMAIN y.v
         /\ \A key \in DOMAIN x.v : PyEq(x.v[key], y.v[key])
    ELSE IF x.k = "list" /\ y.k = "list"
    THEN /\ Len(x.v) = Len(y.v)
         /\ \A i \in 1..Len(x.v) : PyEq(x.v[i], y.v[i])
    ELSE IF x.k \in {"bool", "num"} /\ y.k \in {"bool", "num"}
    THEN x.v = y.v
    ELSE x.k = "null" /\ y.k = "null"

\* the elements of the set S in the iteration order ord
IterOrder(S, ord) == SelectSeq(ord, LAMBDA key : key \in S)

EmptyMap == [p \in {} |-> None]

\* d[p] = x
SetItem(d, p, x) == [q \in DOMAIN d \cup {p} |-> IF q = p THEN x ELSE d[q]]

\* d.update(e)
update(d, e) ==
    [q \in DOMAIN d \cup DOMAIN e |-> IF q \in DOMAIN e THEN e[q] ELSE d[q]]

----------------------------------------------------------------------------
(* find_differences.  The field overwritten is a history of the call, not  *)
(* part of the Python dictionary: the paths at which a write or a merge    *)
(* replaced an entry that was already recorded in the same mapping.        *)

NoDifferences ==
    [added |-> EmptyMap, removed |-> EmptyMap, changed |-> EmptyMap,
     overwritten |-> {}]

\* differences[label][KeyPath(path, key)] = src[key] for key in keys
RECURSIVE RecordKeys(_, _, _, _, _)
RecordKeys(diff, label, keys, src, path) ==
    IF keys = <<>> THEN diff
    ELSE LET p == KeyPath(path, Head(keys))
             hit == IF p \in DOMAIN diff[label] THEN {p} ELSE {}
             next == [diff EXCEPT
                        ![label] = SetItem(@, p, src[Head(keys)]),
                        !.overwritten = @ \cup hit]
         IN  RecordKeys(next, label, Tail(keys), src, path)

\* differences[label][IndexPath(path, i).strip(".")] = src[i]
\* for i in range(from, to), with 0-based i
RECURSIVE RecordIndexes(_, _, _, _, _, _)
RecordIndexes(diff, label, from, to, src, path) ==
    IF from >= to THEN diff
    ELSE LET p == strip(IndexPath(path, from))
             hit == IF p \in DOMAIN diff[label] THEN {p} ELSE {}
             next == [diff EXCEPT
                        ![label] = SetItem(@, p, src[from + 1]),
                        !.overwritten = @ \cup hit]
         IN  RecordIndexes(next, label, from + 1, to, src, path)

\* the three update calls that merge a recursive result into the parent
Merge(diff, sub_diff) ==
    [added |-> update(diff.added, sub_diff.added),
     removed |-> update(diff.removed, sub_diff.removed),
     changed |-> update(diff.changed, sub_diff.changed),
     overwritten |->
        diff.overwritten \cup sub_diff.overwritten
        \cup (DOMAIN diff.added \cap DOMAIN sub_diff.added)
        \cup (DOMAIN diff.removed \cap DOMAIN sub_diff.removed)
        \cup (DOMAIN diff.changed \cap DOMAIN sub_diff.changed)]

\* before != after
Unequal(x, y) == ~PyEq(x, y)

\* the comparison with the "if before != after" test left out
CompareValues_Unconditional(diff, x, y, path) ==
    [diff EXCEPT !.changed = SetItem(@, path, [before |-> x, after |-> y])]

\* the direct comparison of two values that are not both mappings or lists
CompareValues(diff, x, y, path) ==
    IF Unequal(x, y)
    THEN [diff EXCEPT !.changed = SetItem(@, path, [before |-> x, after |-> y])]
    ELSE diff

RECURSIVE find_differences(_, _, _, _)
RECURSIVE MergeKeys(_, _, _, _, _, _)
RECURSIVE MergeItems(_, _, _, _, _, _)

\* for key in before_keys & after_keys: recurse and merge
MergeKeys(diff, keys, x, y, path, ord) ==
    IF keys = <<>> THEN diff
    ELSE LET key == Head(keys)
             sub_diff == find_differences(x[key], y[key], KeyPath(path, key), ord)
         IN  MergeKeys(Merge(diff, sub_diff), Tail(keys), x, y, path, ord)

\* for i, (b_item, a_item) in enumerate(zip(before, after)): recurse and merge
MergeItems(diff, i, x, y, path, ord) ==
    IF i >= Len(x) \/ i >= Len(y) THEN diff
    ELSE LET sub_diff == find_differences(x[i + 1], y[i + 1], IndexPath(path, i), ord)
         IN  MergeItems(Merge(diff, sub_diff), i + 1, x, y, path, ord)

find_differences(x, y, path, ord) ==
    IF x.k = "dict" /\ y.k = "dict"
    THEN LET before_keys == DOMAIN x.v
             after_keys == DOMAIN y.v
             d1 == RecordKeys(NoDifferences, "added",
                              IterOrder(after_keys \ before_keys, ord), y.v, path)
             d2 == RecordKeys(d1, "removed",
                              IterOrder(before_keys \ after_keys, ord), x.v, path)
         IN  MergeKeys(d2, IterOrder(before_keys \cap after_keys, ord),
                       x.v, y.v, path, ord)
    ELSE IF x.k = "list" /\ y.k = "list"
    THEN LET d1 == MergeItems(NoDifferences, 0, x.v, y.v, path, ord)
         IN  IF Len(y.v) > Len(x.v)
             THEN RecordIndexes(d1, "added", Len(x.v), Len(y.v), y.v, path)
             ELSE IF Len(x.v) > Len(y.v)
             THEN RecordIndexes(d1, "removed", Len(y.v), Len(x.v), x.v, path)
             ELSE d1
    ELSE CompareValues(NoDifferences, x, y, path)

\* differences["added"] or differences["removed"] or differences["changed"]
Truthy(diff) ==
    \/ DOMAIN diff.added # {}
    \/ DOMAIN diff.removed # {}
    \/ DOMAIN diff.changed # {}

\* the Python dictionary that find_differences returns
AsDict(diff) ==
    [added |-> diff.added, removed |-> diff.removed, changed |-> diff.changed]

\* a value of the "differences" field: None, {} or a Difference Set
Absent == [is |-> "None", value |-> AsDict(NoDifferences)]

EmptyObject == [is |-> "{}", value |-> AsDict(NoDifferences)]

Present(d) == [is |-> "differences", value |-> d]

get_the_differences(x, y, ord) ==
    LET diff == find_differences(x, y, <<>>, ord)
    IN  IF Truthy(diff) THEN Present(AsDict(diff)) ELSE Absent

----------------------------------------------------------------------------
(* change_details and analyse_plan *)

\* a key that the JSON object does not have
Missing == [k |-> "missing", v |-> 0]

\* dict.get(key, default)
Get(x, default) == IF x = Missing THEN default ELSE x

\* the truth value of a Python object
Bool(x) ==
    IF x.k = "null" THEN FALSE
    ELSE IF x.k \in {"bool", "num"} THEN x.v # 0
    ELSE IF x.k = "dict" THEN DOMAIN x.v # {}
    ELSE Len(x.v) # 0

control_actions == {"create", "delete", "update", "replace"}

\* token in action
In(token, action) == \E i \in 1..Len(action) : action[i] = token

\* the control test made on every token instead of the first one
IsControl_AnyToken(action) ==
    \E i \in 1..Len(action) : action[i] \in control_actions

\* action[0] in control_actions
IsControl(action) == action[1] \in control_actions

\* The normalized record.  name stands for the pass-through fields name,
\* type and dependencies, which the code copies without reading them.
change_details(change, action, ord) ==
    IF IsControl(action)
    THEN LET resource_before == Get(change.before, EmptyDict)
             resource_after == Get(change.after, EmptyDict)
         IN  [name |-> change.name,
              actions |-> change.actions,
              before |-> IF Bool(resource_before) THEN resource_before ELSE EmptyDict,
              after |-> IF Bool(resource_after) THEN resource_after ELSE EmptyDict,
              differences |-> get_the_differences(resource_before, resource_after, ord)]
    ELSE [name |-> change.name,
          actions |-> change.actions,
          before |-> EmptyDict,
          after |-> EmptyDict,
          differences |-> EmptyObject]

ZeroSummary == [create |-> 0, update |-> 0, delete |-> 0, replace |-> 0, no_op |-> 0]

EmptyChangesDict ==
    [create_and_delete |-> <<>>, create |-> <<>>, update |-> <<>>,
     delete |-> <<>>, replace |-> <<>>, no_op |-> <<>>]

Incr(n, cond) == IF cond THEN n + 1 ELSE n

\* action.count(token): the counters count every occurrence of a token
Occurrences(token, action) ==
    Cardinality({i \in 1..Len(action) : action[i] = token})

CountRecord_Occurrences(s, action) ==
    [create |-> s.create + Occurrences("create", action),
     update |-> s.update + Occurrences("update", action),
     delete |-> s.delete + Occurrences("delete", action),
     replace |-> s.replace + Occurrences("replace", action),
     no_op |-> s.no_op + Occurrences("no-op", action)]

\* the five "summary[...] += 1" statements of one loop iteration
CountRecord(s, action) ==
    [create |-> Incr(s.create, In("create", action)),
     update |-> Incr(s.update, In("update", action)),
     delete |-> Incr(s.delete, In("delete", action)),
     replace |-> Incr(s.replace, In("replace", action)),
     no_op |-> Incr(s.no_op, In("no-op", action))]

AppendIf(list, cond, rec) == IF cond THEN Append(list, rec) ELSE list

\* the create branch without its "if delete in action ... else"
AppendRecord_CreateAlways(d, action, rec) ==
    [create_and_delete |->
        AppendIf(d.create_and_delete,
                 In("create", action) /\ In("delete", action), rec),
     create |-> AppendIf(d.create, In("create", action), rec),
     update |-> AppendIf(d.update, In("update", action), rec),
     delete |-> AppendIf(d.delete,
                         In("delete", action) /\ ~In("create", action), rec),
     replace |-> AppendIf(d.replace, In("replace", action), rec),
     no_op |-> AppendIf(d.no_op, In("no-op", action), rec)]

\* the no-op branch without its append
AppendRecord_NoOpDropped(d, action, rec) ==
    [create_and_delete |->
        AppendIf(d.create_and_delete,
                 In("create", action) /\ In("delete", action), rec),
     create |-> AppendIf(d.create,
                         In("create", action) /\ ~In("delete", action), rec),
     update |-> AppendIf(d.update, In("update", action), rec),
     delete |-> AppendIf(d.delete,
                         In("delete", action) /\ ~In("create", action), rec),
     replace |-> AppendIf(d.replace, In("replace", action), rec),
     no_op |-> d.no_op]

\* the six "changes_dict[...].append(change_details(change, action))"
\* statements of one loop iteration
AppendRecord(d, action, rec) ==
    [create_and_delete |->
        AppendIf(d.create_and_delete,
                 In("create", action) /\ In("delete", action), rec),
     create |-> AppendIf(d.create,
                         In("create", action) /\ ~In("delete", action), rec),
     update |-> AppendIf(d.update, In("update", action), rec),
     delete |-> AppendIf(d.delete,
                         In("delete", action) /\ ~In("create", action), rec),
     replace |-> AppendIf(d.replace, In("replace", action), rec),
     no_op |-> AppendIf(d.no_op, In("no-op", action), rec)]

\* some branch of the loop body calls change_details
Classified(action) ==
    \E token \in {"create", "update", "delete", "replace", "no-op"} :
        In(token, action)

\* "if changes is None" instead of "if not changes"
NoChanges_OnlyNone(c) == c.k = "null"

\* if not changes
NoChanges(c) == ~Bool(c)

NoReturn == [is |-> "unset", batch |-> EmptyChangesDict, summary |-> ZeroSummary]

ReturnNone == [is |-> "None", batch |-> EmptyChangesDict, summary |-> ZeroSummary]

ReturnTuple(d, s) == [is |-> "tuple", batch |-> d, summary |-> s]

----------------------------------------------------------------------------
(* The plans that main can load *)

change_types == <<"resource_drift", "resource_changes">>

D1 == Dict([key \in {KeyA} |-> Dict([k2 \in {KeyB} |-> Num(1)])])
D2 == Dict([key \in {KeyA} |-> Dict([k2 \in {KeyB} |-> Num(2)])])

ActionLists ==
    {<<"no-op">>, <<"create">>, <<"update">>, <<"delete">>, <<"replace">>,
     <<"create", "delete">>, <<"delete", "create">>, <<"no-op", "update">>,
     <<"update", "update">>, <<"read">>, <<>>}

Change(a, x, y) == [name |-> "r", actions |-> a, before |-> x, after |-> y]

Records ==
    {Change(a, D1, D2) : a \in ActionLists}
    \cup {Change(<<"no-op">>, D1, D1)}
    \cup {Change(<<"create">>, x, D2) : x \in {Missing, None}}
    \cup {Change(<<"delete">>, D1, y) : y \in {Missing, None}}

\* a section of the plan: a list of records, null, or no such key
Sections ==
    {Missing, None} \cup {List(s) : s \in SeqsUpTo(Records, MaxRecords)}

----------------------------------------------------------------------------
(* The diff engine applied to every pair of values *)

InitDiff ==
    /\ before \in Values
    /\ after \in Values
    /\ dpc = "start"
    /\ differences = AsDict(NoDifferences)
    /\ overwritten = {}
    /\ swapped = AsDict(NoDifferences)
    /\ returned = Absent
    /\ mpc = "off"
    /\ sec = 1
    /\ changes = List(<<>>)
    /\ idx = 0
    /\ summary = ZeroSummary
    /\ changes_dict = EmptyChangesDict
    /\ detail = <<>>
    /\ ret = NoReturn
    /\ outputs = {}

\* find_differences(before, after, "")
FindDifferences ==
    /\ dpc = "start"
    /\ \E ord \in KeyOrders :
          LET diff == find_differences(before, after, <<>>, ord)
          IN  /\ differences' = AsDict(diff)
              /\ overwritten' = diff.overwritten
    /\ dpc' = "found"
    /\ UNCHANGED <<before, after, swapped, returned, pvars>>

\* find_differences(after, before, ""): the same call with the arguments swapped
FindSwapped ==
    /\ dpc = "found"
    /\ \E ord \in KeyOrders :
          swapped' = AsDict(find_differences(after, before, <<>>, ord))
    /\ dpc' = "swapped"
    /\ UNCHANGED <<before, after, differences, overwritten, returned, pvars>>

\* get_the_differences(before, after)
GetTheDifferences ==
    /\ dpc = "start"
    /\ \E ord \in KeyOrders : returned' = get_the_differences(before, after, ord)
    /\ dpc' = "returned"
    /\ UNCHANGED <<before, after, differences, overwritten, swapped, pvars>>

NextDiff == FindDifferences \/ FindSwapped \/ GetTheDifferences

SpecDiff == InitDiff /\ [][NextDiff]_vars

----------------------------------------------------------------------------
(* main: for each change type, analyse the plan and hand the result to the *)
(* three sinks                                                             *)

Init ==
    /\ before = None
    /\ after = None
    /\ dpc = "off"
    /\ differences = AsDict(NoDifferences)
    /\ overwritten = {}
    /\ swapped = AsDict(NoDifferences)
    /\ returned = Absent
    /\ mpc = "main"
    /\ sec = 1
    /\ changes = List(<<>>)
    /\ idx = 0
    /\ summary = ZeroSummary
    /\ changes_dict = EmptyChangesDict
    /\ detail = <<>>
    /\ ret = NoReturn
    /\ outputs = {}

\* main loads the plan and calls analyse_plan, which reads the section and
\* initialises its accumulators
PlanGet ==
    /\ mpc = "main"
    /\ sec <= Len(change_types)
    /\ \E section \in Sections : changes' = Get(section, List(<<>>))
    /\ summary' = ZeroSummary
    /\ changes_dict' = EmptyChangesDict
    /\ idx' = 0
    /\ detail' = <<>>
    /\ ret' = NoReturn
    /\ mpc' = "check"
    /\ UNCHANGED <<dvars, sec, outputs>>

\* if not changes: return None
CheckChanges ==
    /\ mpc = "check"
    /\ IF NoChanges(changes)
       THEN ret' = ReturnNone /\ mpc' = "unpack"
       ELSE ret' = ret /\ mpc' = "loop"
    /\ UNCHANGED <<dvars, sec, changes, idx, summary, changes_dict, detail, outputs>>

\* one iteration of "for change in changes"
LoopStep ==
    /\ mpc = "loop"
    /\ idx < Len(changes.v)
    /\ LET change == changes.v[idx + 1]
           action == change.actions
       IN  /\ summary' = CountRecord(summary, action)
           /\ \E ord \in KeyOrders :
                 IF Classified(action)
                 THEN LET rec == change_details(change, action, ord)
                      IN  /\ changes_dict' = AppendRecord(changes_dict, action, rec)
                          /\ detail' = <<rec>>
                 ELSE /\ changes_dict' = changes_dict
                      /\ detail' = <<>>
    /\ idx' = idx + 1
    /\ UNCHANGED <<dvars, mpc, sec, changes, ret, outputs>>

\* return changes_dict, summary
ReturnResult ==
    /\ mpc = "loop"
    /\ idx = Len(changes.v)
    /\ ret' = ReturnTuple(changes_dict, summary)
    /\ mpc' = "unpack"
    /\ UNCHANGED <<dvars, sec, changes, idx, summary, changes_dict, detail, outputs>>

\* detailed_changes, summary = analyse_plan(plan, change_type)
\* Unpacking None raises TypeError, which nothing catches.
Unpack ==
    /\ mpc = "unpack"
    /\ mpc' = IF ret.is = "None" THEN "TypeError" ELSE "display_summary"
    /\ UNCHANGED <<dvars, sec, changes, idx, summary, changes_dict, detail, ret, outputs>>

DisplaySummary ==
    /\ mpc = "display_summary"
    /\ outputs' = outputs \cup {<<change_types[sec], "summary">>}
    /\ mpc' = "display_detailed_changes"
    /\ UNCHANGED <<dvars, sec, changes, idx, summary, changes_dict, detail, ret>>

DisplayDetailedChanges ==
    /\ mpc = "display_detailed_changes"
    /\ outputs' = outputs \cup {<<change_types[sec], "details">>}
    /\ mpc' = "generate_json_files"
    /\ UNCHANGED <<dvars, sec, changes, idx, summary, changes_dict, detail, ret>>

\* The last statement of the loop body of main.  The locals of the finished
\* iteration are dead and are reset here.
GenerateJsonFiles ==
    /\ mpc = "generate_json_files"
    /\ outputs' = outputs \cup {<<change_types[sec], "files">>}
    /\ sec' = sec + 1
    /\ mpc' = "main"
    /\ changes' = List(<<>>)
    /\ idx' = 0
    /\ summary' = ZeroSummary
    /\ changes_dict' = EmptyChangesDict
    /\ detail' = <<>>
    /\ ret' = NoReturn
    /\ UNCHANGED dvars

Next ==
    \/ PlanGet
    \/ CheckChanges
    \/ LoopStep
    \/ ReturnResult
    \/ Unpack
    \/ DisplaySummary
    \/ DisplayDetailedChanges
    \/ GenerateJsonFiles

Spec == Init /\ [][Next]_vars

----------------------------------------------------------------------------
(* Properties of the diff engine, checked under SpecDiff *)

PathsOf(d) == DOMAIN d.added \cup DOMAIN d.removed \cup DOMAIN d.changed

\* C1: in the result of find_differences(before, after, "") every path is
\* in at most one of added, removed and changed, and no write or merge
\* replaced an entry already recorded under the same path.
C1_PathsUniqueNoOverwrite ==
    dpc = "found" =>
        /\ DOMAIN differences.added \cap DOMAIN differences.removed = {}
        /\ DOMAIN differences.added \cap DOMAIN differences.changed = {}
        /\ DOMAIN differences.removed \cap DOMAIN differences.changed = {}
        /\ overwritten = {}

\* C8: swapping the arguments swaps added with removed and swaps the
\* before/after pair of every changed entry.
C8_SwapSwapsLabels ==
    dpc = "swapped" =>
        /\ differences.added = swapped.removed
        /\ differences.removed = swapped.added
        /\ DOMAIN differences.changed = DOMAIN swapped.changed
        /\ \A p \in DOMAIN differences.changed :
              /\ differences.changed[p].before = swapped.changed[p].after
              /\ differences.changed[p].after = swapped.changed[p].before

\* C9: diffing a value against itself gives three empty mappings, and
\* get_the_differences returns None for it.
C9_SelfDiffIsEmpty ==
    before = after =>
        /\ dpc = "found" => PathsOf(differences) = {}
        /\ dpc = "returned" => returned = Absent

\* a mapping with a nested non-empty value under "a" and an entry "a.b" has
\* been diffed against itself
C9_Witness ==
    /\ dpc = "returned"
    /\ before = after
    /\ before.k = "dict"
    /\ DOMAIN before.v = {KeyA, KeyAB}
    /\ before.v[KeyA].k \in {"dict", "list"}
    /\ Bool(before.v[KeyA])

\* C10: for structurally unequal values get_the_differences returns a
\* Difference Set with at least one entry.
C10_UnequalHasDifferences ==
    dpc = "returned" /\ before # after =>
        /\ returned.is = "differences"
        /\ PathsOf(returned.value) # {}

----------------------------------------------------------------------------
(* Properties of the classifier and of main, checked under Spec *)

\* the state of a record that is missing or null
IsAbsent(x) == x = Missing \/ x = None

\* the paths of the leaves of a value
RECURSIVE LeafPaths(_, _)
LeafPaths(x, path) ==
    IF x.k = "dict"
    THEN UNION {LeafPaths(x.v[key], KeyPath(path, key)) : key \in DOMAIN x.v}
    ELSE IF x.k = "list"
    THEN UNION {LeafPaths(x.v[i], IndexPath(path, i - 1)) : i \in 1..Len(x.v)}
    ELSE {path}

\* the record that the last loop iteration processed
LastChange == changes.v[idx]

\* C2: a control record whose before (after) state is missing or null is
\* diffed with an empty mapping in its place: its differences have only
\* added (removed) entries, one for every leaf path of the other state.
C2_AbsentStateIsEmptyMapping ==
    (mpc = "loop" /\ idx > 0 /\ detail # <<>> /\ IsControl(LastChange.actions)) =>
        LET rec == detail[1]
            diff == rec.differences.value
        IN  /\ IsAbsent(LastChange.before) =>
                 /\ rec.before = EmptyDict
                 /\ DOMAIN diff.removed = {}
                 /\ DOMAIN diff.changed = {}
                 /\ DOMAIN diff.added = LeafPaths(rec.after, <<>>)
            /\ IsAbsent(LastChange.after) =>
                 /\ rec.after = EmptyDict
                 /\ DOMAIN diff.added = {}
                 /\ DOMAIN diff.changed = {}
                 /\ DOMAIN diff.removed = LeafPaths(rec.before, <<>>)

\* analyse_plan has returned a batch for records that all have the actions ["no-op"]
AllNoOp ==
    /\ ret.is = "tuple"
    /\ \A j \in 1..Len(changes.v) : changes.v[j].actions = <<"no-op">>

NoOpSummary == [ZeroSummary EXCEPT !.no_op = Len(changes.v)]

\* C3 as stated: for a batch of records with actions ["no-op"] all six
\* category lists are empty and the summary counts the records under no_op.
C3_NoOpBatchAllListsEmpty ==
    AllNoOp =>
        /\ ret.batch = EmptyChangesDict
        /\ ret.summary = NoOpSummary

\* C3 as amended: the five other lists are empty, no_op holds one normalized
\* record per input record, in input order, with empty before, after and
\* differences, and the summary counts the records under no_op.
C3_NoOpBatchOnlyNoOpList ==
    AllNoOp =>
        /\ ret.batch =
              [EmptyChangesDict EXCEPT
                  !.no_op = [j \in 1..Len(changes.v) |->
                                [name |-> changes.v[j].name,
                                 actions |-> <<"no-op">>,
                                 before |-> EmptyDict,
                                 after |-> EmptyDict,
                                 differences |-> EmptyObject]]]
        /\ ret.summary = NoOpSummary

C3_Witness == AllNoOp /\ Len(changes.v) >= 2

\* C4: analyse_plan returns None exactly when the section has no records
\* (empty, missing or null), and nothing is displayed or written for a
\* section for which it returned None.
C4_EmptySectionReturnsNone ==
    /\ ret.is # "unset" =>
          (ret.is = "None" <=> (changes = None \/ changes = List(<<>>)))
    /\ ret.is = "None" =>
          \A sink \in {"summary", "details", "files"} :
              <<change_types[sec], sink>> \notin outputs
    /\ mpc \in {"display_summary", "display_detailed_changes", "generate_json_files"}
          => ret.is = "tuple"

\* the second section has no records, after the first one was reported
C4_Witness ==
    /\ mpc = "TypeError"
    /\ ret.is = "None"
    /\ sec = Len(change_types)
    /\ <<change_types[1], "files">> \in outputs

\* the number of records among the first n that contain the token
Containing(token, n) ==
    Cardinality({j \in 1..n : \E i \in DOMAIN changes.v[j].actions :
                                  changes.v[j].actions[i] = token})

CountersOf(n) ==
    [create |-> Containing("create", n),
     update |-> Containing("update", n),
     delete |-> Containing("delete", n),
     replace |-> Containing("replace", n),
     no_op |-> Containing("no-op", n)]

\* C5: after every processed prefix of the batch, and in the returned
\* summary, each counter equals the number of records that contain its
\* token at least once.
C5_CountersCountRecords ==
    /\ mpc = "loop" => summary = CountersOf(idx)
    /\ ret.is = "tuple" => ret.summary = CountersOf(Len(changes.v))

\* a batch with a repeated token and with a record in two counters was returned
C5_Witness ==
    /\ ret.is = "tuple"
    /\ \E j \in 1..Len(changes.v) : changes.v[j].actions = <<"update", "update">>
    /\ \E j \in 1..Len(changes.v) : changes.v[j].actions = <<"delete", "create">>

\* the loop is about to process a record, and processes it
Processing(change) ==
    /\ mpc = "loop"
    /\ idx < Len(changes.v)
    /\ change = changes.v[idx + 1]
    /\ idx' = idx + 1

HasToken(change, token) ==
    \E i \in DOMAIN change.actions : change.actions[i] = token

\* C6: a record with both create and delete is appended to create_and_delete,
\* adds one to the create and to the delete counter, and is appended neither
\* to create nor to delete.
C6_CreateAndDelete ==
    [][\A change \in Records :
          (Processing(change) /\ HasToken(change, "create")
              /\ HasToken(change, "delete")) =>
             /\ detail' # <<>>
             /\ detail'[1].actions = change.actions
             /\ changes_dict'.create_and_delete =
                   Append(changes_dict.create_and_delete, detail'[1])
             /\ changes_dict'.create = changes_dict.create
             /\ changes_dict'.delete = changes_dict.delete
             /\ summary'.create = summary.create + 1
             /\ summary'.delete = summary.delete + 1]_vars

C6_Witness ==
    /\ mpc = "loop"
    /\ idx > 0
    /\ LastChange.actions \in {<<"create", "delete">>, <<"delete", "create">>}
    /\ changes_dict.create_and_delete # <<>>

\* C7: a record whose first token is no-op and which has an update token is
\* not diffed: its normalized record has empty before and after and empty
\* differences whatever its states; it adds one to the update counter and is
\* appended to update and to no_op.
C7_NoOpFirstThenUpdate ==
    [][\A change \in Records :
          (Processing(change) /\ change.actions # <<>>
              /\ change.actions[1] = "no-op" /\ HasToken(change, "update")) =>
             /\ detail' # <<>>
             /\ detail'[1].before = EmptyDict
             /\ detail'[1].after = EmptyDict
             /\ detail'[1].differences = EmptyObject
             /\ summary'.update = summary.update + 1
             /\ changes_dict'.update = Append(changes_dict.update, detail'[1])
             /\ changes_dict'.no_op = Append(changes_dict.no_op, detail'[1])]_vars

\* such a record, with different before and after states, was processed
C7_Witness ==
    /\ mpc = "loop"
    /\ idx > 0
    /\ LastChange.actions = <<"no-op", "update">>
    /\ LastChange.before # LastChange.after
    /\ changes_dict.update # <<>>

====
